---------------------------- MODULE Spec2Model ----------------------------
(***************************************************************************)
(* The authentication adapter of src/server/auth.ts (mySqlDrizzleAdapter)  *)
(* over the four tables users, accounts, sessions and verificationTokens   *)
(* of the schema.  A table is the set of its rows; a statement is an       *)
(* operator on tables, with the keys and foreign keys the schema declares  *)
(* enforced as the relational engine enforces them per statement.          *)
(*                                                                         *)
(* Spec      runs the adapter's operations one after the other: one action *)
(*           is one whole handler.                                         *)
(* ConcSpec  runs calls concurrently: one action is one awaited statement  *)
(*           of a handler, the await between two statements being the      *)
(*           point where another call's statement may run.                 *)
(***************************************************************************)
EXTENDS Naturals, FiniteSets, Sequences, TLC

VARIABLES
    users,              \* rows of the user table
    accounts,           \* rows of the account table
    sessions,           \* rows of the session table
    verificationTokens, \* rows of the verificationToken table
    nCalls,             \* adapter calls started so far
    last,               \* Spec: the call that completed last, [op, arg, res]
    procs,              \* ConcSpec: each caller's call in flight, [op, arg, pc, loc, res]
    interfered,         \* ConcSpec: another call changed a table since this call's first statement
    handedOut           \* ConcSpec: per stored token, the calls that returned it since its insert

tables == <<users, accounts, sessions, verificationTokens>>
vars == <<users, accounts, sessions, verificationTokens, nCalls, last, procs,
          interfered, handedOut>>

---------------------------------------------------------------------------
(* Bounds of the model *)

MaxCalls == 4       \* calls of one behaviour of Spec
MaxConcCalls == 2   \* calls of one behaviour of ConcSpec

---------------------------------------------------------------------------
(* JavaScript and SQL values *)

NULL == "NULL"                      \* SQL NULL / JavaScript null in a column
NOW == "now"                        \* what CURRENT_TIMESTAMP(3) yields
Null == [kind |-> "null"]           \* a handler's null
Undefined == [kind |-> "undefined"] \* a handler's undefined
Err(msg) == [kind |-> "error", msg |-> msg]
IsErr(v) == "kind" \in DOMAIN v /\ v.kind = "error"
IsRow(v) == "kind" \notin DOMAIN v

ER_DUP_ENTRY == Err("ER_DUP_ENTRY")
ER_NO_REFERENCED_ROW == Err("ER_NO_REFERENCED_ROW")
ER_ROW_IS_REFERENCED == Err("ER_ROW_IS_REFERENCED")

(* The values the callers pass *)
UserIds == {"u1", "u2"}             \* what createId() may return
Emails == {"a@x"}
UserNames == {"ann"}
NewNames == {"bob", "cat"}
SessionTokens == {"s1", "s2"}
Dates == {"d1"}                     \* the expiry a session or token is created with
NewDates == {"d2"}                  \* the expiry updateSession moves a session to
Providers == {"github"}
ProviderAccountIds == {"g1", "g2"}
Identifiers == {"i1"}
Tokens == {"k1", "k2"}
Procs == {1, 2}

(* The records that give every field of `must` and some of the fields of
   `opt`, a field f holding a value of must[f] or opt[f]: an object whose
   optional properties may be left out *)
PartialRecords(must, opt) ==
    LET values == UNION ({must[f] : f \in DOMAIN must} \cup {opt[f] : f \in DOMAIN opt})
        typed(r) == \A f \in DOMAIN r :
                        r[f] \in (IF f \in DOMAIN must THEN must[f] ELSE opt[f])
    IN  UNION {{r \in [(DOMAIN must) \cup s -> values] : typed(r)}
               : s \in SUBSET (DOMAIN opt)}

\* createUser's data: Omit<AdapterUser, "id">
UserPayloads ==
    PartialRecords([email |-> Emails, emailVerified |-> {NULL, "t1"}],
                   [name |-> UserNames])

\* updateUser's data: Partial<AdapterUser> & Pick<AdapterUser, "id">, the id
\* possibly missing or empty at run time
UserUpdates ==
    PartialRecords([x \in {} |-> {}],
                   [id |-> UserIds \cup {""}, name |-> NewNames])

SessionRows == [sessionToken : SessionTokens, userId : UserIds, expires : Dates]

\* updateSession's data: Partial<AdapterSession> & Pick<AdapterSession, "sessionToken">
SessionUpdates ==
    PartialRecords([sessionToken |-> SessionTokens],
                   [userId |-> UserIds, expires |-> NewDates])

\* the token material of an account row (refresh_token, access_token, ...) is
\* stored and never read by the adapter; the rows keep the key, the owner and the type
AccountRows == [userId : UserIds, type : {"oauth"}, provider : Providers,
                providerAccountId : ProviderAccountIds]
AccountKeys == [provider : Providers, providerAccountId : ProviderAccountIds]

TokenRows == [identifier : Identifiers, token : Tokens, expires : Dates]
TokenKeys == [identifier : Identifiers, token : Tokens]

---------------------------------------------------------------------------
(* The schema *)

UserColumns == {"id", "name", "email", "emailVerified", "image"}

\* the column's DEFAULT: CURRENT_TIMESTAMP(3) for emailVerified, NULL for a
\* nullable column that declares none
UserDefault(c) == IF c = "emailVerified" THEN NOW ELSE NULL

\* UserRow as an INSERT that names no name column would store the row
UserRow_withoutName(v) ==
    [c \in UserColumns |-> IF c \in DOMAIN v /\ c # "name" THEN v[c] ELSE UserDefault(c)]

\* the row INSERT stores for the values given: a column left out takes its default
UserRow(v) == [c \in UserColumns |-> IF c \in DOMAIN v THEN v[c] ELSE UserDefault(c)]

\* the row UPDATE ... SET leaves: the columns given are replaced
SetColumns(row, data) == [c \in DOMAIN row |-> IF c \in DOMAIN data THEN data[c] ELSE row[c]]

UserExists(U, id) == \E u \in U : u.id = id

(* users.id is the primary key *)
UsersKeyFree(U, row) == ~UserExists(U, row.id)

(* sessions.sessionToken is the primary key *)
SessionsKeyFree(S, row) == \A s \in S : s.sessionToken # row.sessionToken

(* accounts: primaryKey(provider, providerAccountId) *)
AccountsKeyFree(A, row) ==
    \A a \in A : ~(a.provider = row.provider /\ a.providerAccountId = row.providerAccountId)

(* verificationTokens: primaryKey(identifier, token) *)
TokensKeyFree(V, row) ==
    \A v \in V : ~(v.identifier = row.identifier /\ v.token = row.token)

\* UserIdReferences with the references left out of the schema
UserIdReferences_undeclared(U, row) == TRUE

(* userId ... .references(() => users.id), on sessions and on accounts *)
UserIdReferences(U, row) == UserExists(U, row.userId)

\* UserUnreferenced with the delete not restricted
UserUnreferenced_unrestricted(S, A, id) == TRUE

(* no row of sessions or accounts references the user: the references
   declare no ON DELETE action, so the engine restricts the delete *)
UserUnreferenced(S, A, id) ==
    /\ \A s \in S : s.userId # id
    /\ \A a \in A : a.userId # id

---------------------------------------------------------------------------
(* Statements *)

\* res[0] of a select: the first row, in an order the statement does not
\* fix, or undefined when no row matched
First(rows) == IF rows = {} THEN {Undefined} ELSE rows

\* v ?? null
OrNull(v) == IF v = Undefined THEN Null ELSE v

SelectUsersById(U, id) == {u \in U : u.id = id}
SelectUsersByEmail(U, email) == {u \in U : u.email = email}
SelectSessions(S, sessionToken) == {s \in S : s.sessionToken = sessionToken}
SelectTokensByIdentifier(V, identifier) == {v \in V : v.identifier = identifier}
SelectTokens(V, identifier, token) ==
    {v \in V : v.identifier = identifier /\ v.token = token}

\* select({session, user}).from(sessions).where(sessionToken).innerJoin(users, ...)
SessionInnerJoinUser(S, U, sessionToken) ==
    {[session |-> s, user |-> u] : <<s, u>> \in
        {p \in SelectSessions(S, sessionToken) \X U : p[2].id = p[1].userId}}

\* AccountLeftJoinUser with the where clause on the provider alone
AccountLeftJoinUser_byProvider(A, U, provider, providerAccountId) ==
    LET matching == {a \in A : a.provider = provider}
    IN  UNION {IF UserExists(U, a.userId)
               THEN {[account |-> a, user |-> u] : u \in {x \in U : x.id = a.userId}}
               ELSE {[account |-> a, user |-> Null]} : a \in matching}

\* select().from(accounts).where(...).leftJoin(users, ...): a row per matching
\* account and user, the user null where no user matches
AccountLeftJoinUser(A, U, provider, providerAccountId) ==
    LET matching == {a \in A : a.providerAccountId = providerAccountId
                               /\ a.provider = provider}
    IN  UNION {IF UserExists(U, a.userId)
               THEN {[account |-> a, user |-> u] : u \in SelectUsersById(U, a.userId)}
               ELSE {[account |-> a, user |-> Null]} : a \in matching}


\* the driver's answer to an INSERT, UPDATE or DELETE: OK or the constraint it broke
OK == [kind |-> "ok"]

InsertUserError(U, row) == IF UsersKeyFree(U, row) THEN OK ELSE ER_DUP_ENTRY

InsertSessionError(S, U, row) ==
    IF ~SessionsKeyFree(S, row) THEN ER_DUP_ENTRY
    ELSE IF ~UserIdReferences(U, row) THEN ER_NO_REFERENCED_ROW
    ELSE OK

InsertAccountError(A, U, row) ==
    IF ~AccountsKeyFree(A, row) THEN ER_DUP_ENTRY
    ELSE IF ~UserIdReferences(U, row) THEN ER_NO_REFERENCED_ROW
    ELSE OK

InsertTokenError(V, row) == IF TokensKeyFree(V, row) THEN OK ELSE ER_DUP_ENTRY

\* the table after an INSERT that the driver answered with err
Inserted(T, row, err) == IF err = OK THEN T \cup {row} ELSE T

\* update(users).set(data).where(eq(users.id, data.id))
UpdatedUsers(U, data) == {IF u.id = data.id THEN SetColumns(u, data) ELSE u : u \in U}

\* update(sessions).set(data).where(eq(sessions.sessionToken, data.sessionToken))
UpdateSessionError(S, U, data) ==
    IF /\ SelectSessions(S, data.sessionToken) # {}
       /\ "userId" \in DOMAIN data
       /\ ~UserIdReferences(U, data)
    THEN ER_NO_REFERENCED_ROW
    ELSE OK

\* UpdatedSessions with a where clause that matches no row
UpdatedSessions_noMatch(S, data, err) == S

UpdatedSessions(S, data, err) ==
    IF err = OK
    THEN {IF s.sessionToken = data.sessionToken THEN SetColumns(s, data) ELSE s : s \in S}
    ELSE S

\* DeletedSessions with the where clause left out
DeletedSessions_all(S, sessionToken) == {}

\* delete(sessions).where(eq(sessions.sessionToken, sessionToken))
DeletedSessions(S, sessionToken) == S \ SelectSessions(S, sessionToken)

\* DeletedTokens with a where clause that matches no row
DeletedTokens_noMatch(V, identifier, token) == V

\* delete(verificationTokens).where(and(identifier, token))
DeletedTokens(V, identifier, token) == V \ SelectTokens(V, identifier, token)

\* delete(users).where(eq(users.id, id))
DeleteUserError(S, A, U, id) ==
    IF UserExists(U, id) /\ ~UserUnreferenced(S, A, id) THEN ER_ROW_IS_REFERENCED ELSE OK

DeletedUsers(U, id, err) == IF err = OK THEN U \ SelectUsersById(U, id) ELSE U

\* delete(accounts).where(and(providerAccountId, provider))
DeletedAccounts(A, provider, providerAccountId) ==
    {a \in A : ~(a.providerAccountId = providerAccountId /\ a.provider = provider)}

\* NoUserId as data.id === undefined
NoUserId_undefinedOnly(data) == "id" \notin DOMAIN data

\* if (!data.id): the id is missing or the empty string
NoUserId(data) == "id" \notin DOMAIN data \/ data.id = ""


---------------------------------------------------------------------------
(* Spec: the handlers, one call at a time *)

NoCall == [op |-> "none", arg |-> Undefined, res |-> Undefined]
Idle == [op |-> "none", arg |-> Undefined, pc |-> "idle", loc |-> Undefined,
         res |-> Undefined]

Init ==
    /\ users = {}
    /\ accounts = {}
    /\ sessions = {}
    /\ verificationTokens = {}
    /\ nCalls = 0
    /\ last = NoCall
    /\ procs = [p \in Procs |-> Idle]
    /\ interfered = [p \in Procs |-> FALSE]
    /\ handedOut = [k \in TokenKeys |-> 0]

TokenKey(token) == [identifier |-> token.identifier, token |-> token.token]

\* handedOut once the call has returned res: a stored token starts at no call,
\* and each call that returns it counts (a history of the run, not program state)
HandedOut(op, arg, res) ==
    IF op = "createVerificationToken" /\ ~IsErr(res)
    THEN [handedOut EXCEPT ![TokenKey(arg)] = 0]
    ELSE IF op = "useVerificationToken" /\ IsRow(res)
    THEN [handedOut EXCEPT ![TokenKey(arg)] = IF @ < 2 THEN @ + 1 ELSE @]
    ELSE handedOut

\* the call returns (or throws) res
Return(op, arg, res) ==
    /\ nCalls < MaxCalls
    /\ nCalls' = nCalls + 1
    /\ last' = [op |-> op, arg |-> arg, res |-> res]
    /\ handedOut' = HandedOut(op, arg, res)
    /\ UNCHANGED <<procs, interfered>>

createUser ==
    \E data \in UserPayloads, id \in UserIds :
        LET row == UserRow([id |-> id] @@ data)
            err == InsertUserError(users, row)
        IN  /\ users' = Inserted(users, row, err)
            /\ UNCHANGED <<accounts, sessions, verificationTokens>>
            /\ IF err # OK
               THEN Return("createUser", data, err)
               ELSE \E r \in First(SelectUsersById(users', id)) :
                        Return("createUser", data, r)

\* what getUser(id) may return from the users U
getUserReturns(U, id) == {OrNull(r) : r \in First(SelectUsersById(U, id))}

getUser ==
    \E id \in UserIds :
        /\ UNCHANGED tables
        /\ \E thing \in getUserReturns(users, id) :
               Return("getUser", [id |-> id], thing)

getUserByEmail ==
    \E email \in Emails :
        /\ UNCHANGED tables
        /\ \E r \in First(SelectUsersByEmail(users, email)) :
               Return("getUserByEmail", [email |-> email], OrNull(r))

createSession ==
    \E data \in SessionRows :
        LET err == InsertSessionError(sessions, users, data)
        IN  /\ sessions' = Inserted(sessions, data, err)
            /\ UNCHANGED <<users, accounts, verificationTokens>>
            /\ IF err # OK
               THEN Return("createSession", data, err)
               ELSE \E r \in First(SelectSessions(sessions', data.sessionToken)) :
                        Return("createSession", data, r)

getSessionAndUser ==
    \E sessionToken \in SessionTokens :
        /\ UNCHANGED tables
        /\ \E r \in First(SessionInnerJoinUser(sessions, users, sessionToken)) :
               Return("getSessionAndUser", [sessionToken |-> sessionToken], OrNull(r))

updateUser ==
    \E data \in UserUpdates :
        IF NoUserId(data)
        THEN /\ UNCHANGED tables
             /\ Return("updateUser", data, Err("No user id."))
        ELSE /\ users' = UpdatedUsers(users, data)
             /\ UNCHANGED <<accounts, sessions, verificationTokens>>
             /\ \E r \in First(SelectUsersById(users', data.id)) :
                    Return("updateUser", data, r)

updateSession ==
    \E data \in SessionUpdates :
        LET err == UpdateSessionError(sessions, users, data)
        IN  /\ sessions' = UpdatedSessions(sessions, data, err)
            /\ UNCHANGED <<users, accounts, verificationTokens>>
            /\ IF err # OK
               THEN Return("updateSession", data, err)
               ELSE \E r \in First(SelectSessions(sessions', data.sessionToken)) :
                        Return("updateSession", data, r)

linkAccount ==
    \E rawAccount \in AccountRows :
        LET err == InsertAccountError(accounts, users, rawAccount)
        IN  /\ accounts' = Inserted(accounts, rawAccount, err)
            /\ UNCHANGED <<users, sessions, verificationTokens>>
            /\ Return("linkAccount", rawAccount, IF err # OK THEN err ELSE Undefined)

getUserByAccount ==
    \E account \in AccountKeys :
        /\ UNCHANGED tables
        /\ \E r \in First(AccountLeftJoinUser(accounts, users, account.provider,
                                              account.providerAccountId)) :
               LET dbAccount == OrNull(r)
               IN  Return("getUserByAccount", account,
                          IF dbAccount = Null THEN Null ELSE dbAccount.user)

deleteSession ==
    \E sessionToken \in SessionTokens :
        \E r \in First(SelectSessions(sessions, sessionToken)) :
            LET session == OrNull(r)
            IN  /\ sessions' = DeletedSessions(sessions, sessionToken)
                /\ UNCHANGED <<users, accounts, verificationTokens>>
                /\ Return("deleteSession", [sessionToken |-> sessionToken], session)

createVerificationToken ==
    \E token \in TokenRows :
        LET err == InsertTokenError(verificationTokens, token)
        IN  /\ verificationTokens' = Inserted(verificationTokens, token, err)
            /\ UNCHANGED <<users, accounts, sessions>>
            /\ IF err # OK
               THEN Return("createVerificationToken", token, err)
               ELSE \E r \in First(SelectTokensByIdentifier(verificationTokens',
                                                            token.identifier)) :
                        Return("createVerificationToken", token, r)

\* the select and the delete raise no error of their own on a missing row, so
\* the catch that throws "No verification token found." is not entered
useVerificationToken ==
    \E token \in TokenKeys :
        \E r \in First(SelectTokens(verificationTokens, token.identifier, token.token)) :
            LET deletedToken == OrNull(r)
            IN  /\ verificationTokens' =
                       DeletedTokens(verificationTokens, token.identifier, token.token)
                /\ UNCHANGED <<users, accounts, sessions>>
                /\ Return("useVerificationToken", token, deletedToken)

deleteUser ==
    \E id \in UserIds :
        \E r \in First(SelectUsersById(users, id)) :
            LET user == OrNull(r)
                err == DeleteUserError(sessions, accounts, users, id)
            IN  /\ users' = DeletedUsers(users, id, err)
                /\ UNCHANGED <<accounts, sessions, verificationTokens>>
                /\ Return("deleteUser", [id |-> id], IF err # OK THEN err ELSE user)

unlinkAccount ==
    \E account \in AccountKeys :
        /\ accounts' = DeletedAccounts(accounts, account.provider,
                                       account.providerAccountId)
        /\ UNCHANGED <<users, sessions, verificationTokens>>
        /\ Return("unlinkAccount", account, Undefined)

Next ==
    \/ createUser
    \/ getUser
    \/ getUserByEmail
    \/ createSession
    \/ getSessionAndUser
    \/ updateUser
    \/ updateSession
    \/ linkAccount
    \/ getUserByAccount
    \/ deleteSession
    \/ createVerificationToken
    \/ useVerificationToken
    \/ deleteUser
    \/ unlinkAccount

Spec == Init /\ [][Next]_vars

---------------------------------------------------------------------------
(* ConcSpec: concurrent calls, one awaited statement at a time *)

\* a store the calls of Spec can have filled
SeededUser == UserRow([id |-> "u1", name |-> "ann", email |-> "a@x",
                       emailVerified |-> NULL])
OtherUser == UserRow([id |-> "u2", email |-> "a@x", emailVerified |-> "t1"])
SeededSession == [sessionToken |-> "s1", userId |-> "u1", expires |-> "d1"]
SeededToken == [identifier |-> "i1", token |-> "k1", expires |-> "d1"]

ConcInit ==
    /\ users \in {{SeededUser}, {SeededUser, OtherUser}}
    /\ accounts = {}
    /\ sessions = {SeededSession}
    /\ verificationTokens = {SeededToken}
    /\ nCalls = 0
    /\ last = NoCall
    /\ procs = [p \in Procs |-> Idle]
    /\ interfered = [p \in Procs |-> FALSE]
    /\ handedOut = [k \in TokenKeys |-> 0]

\* caller p has no call in flight and may start one
Free(p) == procs[p].pc \in {"idle", "done"} /\ nCalls < MaxConcCalls

\* caller p's call of op awaits its statement pc
At(p, op, pc) == procs[p].op = op /\ procs[p].pc = pc

\* a statement of caller p has run: a call that started counts, and a call of
\* another caller that is between two statements learns whether a table changed
Ran(p, started) ==
    /\ nCalls' = IF started THEN nCalls + 1 ELSE nCalls
    /\ interfered' = [q \in Procs |->
                        /\ q # p
                        /\ procs[q].pc \notin {"idle", "done"}
                        /\ (interfered[q] \/ tables' # tables)]
    /\ UNCHANGED last

\* caller p's call goes on to await its statement pc, keeping loc
Goes(p, op, arg, pc, loc) ==
    procs' = [procs EXCEPT ![p] =
                 [op |-> op, arg |-> arg, pc |-> pc, loc |-> loc, res |-> Undefined]]

\* caller p's call returns (or throws) res
Returns(p, op, arg, loc, res) ==
    procs' = [procs EXCEPT ![p] =
                 [op |-> op, arg |-> arg, pc |-> "done", loc |-> loc, res |-> res]]

createUser_insert(p) ==
    /\ Free(p)
    /\ \E data \in UserPayloads, id \in UserIds :
        LET row == UserRow([id |-> id] @@ data)
            err == InsertUserError(users, row)
        IN  /\ users' = Inserted(users, row, err)
            /\ IF err # OK
               THEN Returns(p, "createUser", data, [id |-> id], err)
               ELSE Goes(p, "createUser", data, "select", [id |-> id])
    /\ UNCHANGED <<accounts, sessions, verificationTokens, handedOut>>
    /\ Ran(p, TRUE)

createUser_select(p) ==
    /\ At(p, "createUser", "select")
    /\ \E r \in First(SelectUsersById(users, procs[p].loc.id)) :
        Returns(p, "createUser", procs[p].arg, procs[p].loc, r)
    /\ UNCHANGED <<tables, handedOut>>
    /\ Ran(p, FALSE)

getUser_select(p) ==
    /\ Free(p)
    /\ \E id \in UserIds : \E thing \in getUserReturns(users, id) :
        Returns(p, "getUser", [id |-> id], Undefined, thing)
    /\ UNCHANGED <<tables, handedOut>>
    /\ Ran(p, TRUE)

getUserByEmail_select(p) ==
    /\ Free(p)
    /\ \E email \in Emails : \E r \in First(SelectUsersByEmail(users, email)) :
        Returns(p, "getUserByEmail", [email |-> email], Undefined, OrNull(r))
    /\ UNCHANGED <<tables, handedOut>>
    /\ Ran(p, TRUE)

createSession_insert(p) ==
    /\ Free(p)
    /\ \E data \in SessionRows :
        LET err == InsertSessionError(sessions, users, data)
        IN  /\ sessions' = Inserted(sessions, data, err)
            /\ IF err # OK
               THEN Returns(p, "createSession", data, Undefined, err)
               ELSE Goes(p, "createSession", data, "select", Undefined)
    /\ UNCHANGED <<users, accounts, verificationTokens, handedOut>>
    /\ Ran(p, TRUE)

createSession_select(p) ==
    /\ At(p, "createSession", "select")
    /\ \E r \in First(SelectSessions(sessions, procs[p].arg.sessionToken)) :
        Returns(p, "createSession", procs[p].arg, Undefined, r)
    /\ UNCHANGED <<tables, handedOut>>
    /\ Ran(p, FALSE)

getSessionAndUser_select(p) ==
    /\ Free(p)
    /\ \E sessionToken \in SessionTokens :
        \E r \in First(SessionInnerJoinUser(sessions, users, sessionToken)) :
            Returns(p, "getSessionAndUser", [sessionToken |-> sessionToken],
                    Undefined, OrNull(r))
    /\ UNCHANGED <<tables, handedOut>>
    /\ Ran(p, TRUE)

\* loc: the row the update statement has left, for the claims to compare the
\* call's result with (the handler itself keeps no such value)
updateUser_update(p) ==
    /\ Free(p)
    /\ \E data \in UserUpdates :
        IF NoUserId(data)
        THEN /\ UNCHANGED users
             /\ Returns(p, "updateUser", data, Undefined, Err("No user id."))
        ELSE /\ users' = UpdatedUsers(users, data)
             /\ \E written \in First(SelectUsersById(users', data.id)) :
                    Goes(p, "updateUser", data, "select", written)
    /\ UNCHANGED <<accounts, sessions, verificationTokens, handedOut>>
    /\ Ran(p, TRUE)

updateUser_select(p) ==
    /\ At(p, "updateUser", "select")
    /\ \E r \in First(SelectUsersById(users, procs[p].arg.id)) :
        Returns(p, "updateUser", procs[p].arg, procs[p].loc, r)
    /\ UNCHANGED <<tables, handedOut>>
    /\ Ran(p, FALSE)

updateSession_update(p) ==
    /\ Free(p)
    /\ \E data \in SessionUpdates :
        LET err == UpdateSessionError(sessions, users, data)
        IN  /\ sessions' = UpdatedSessions(sessions, data, err)
            /\ IF err # OK
               THEN Returns(p, "updateSession", data, Undefined, err)
               ELSE \E written \in First(SelectSessions(sessions', data.sessionToken)) :
                        Goes(p, "updateSession", data, "select", written)
    /\ UNCHANGED <<users, accounts, verificationTokens, handedOut>>
    /\ Ran(p, TRUE)

updateSession_select(p) ==
    /\ At(p, "updateSession", "select")
    /\ \E r \in First(SelectSessions(sessions, procs[p].arg.sessionToken)) :
        Returns(p, "updateSession", procs[p].arg, procs[p].loc, r)
    /\ UNCHANGED <<tables, handedOut>>
    /\ Ran(p, FALSE)

linkAccount_insert(p) ==
    /\ Free(p)
    /\ \E rawAccount \in AccountRows :
        LET err == InsertAccountError(accounts, users, rawAccount)
        IN  /\ accounts' = Inserted(accounts, rawAccount, err)
            /\ Returns(p, "linkAccount", rawAccount, Undefined,
                       IF err # OK THEN err ELSE Undefined)
    /\ UNCHANGED <<users, sessions, verificationTokens, handedOut>>
    /\ Ran(p, TRUE)

getUserByAccount_select(p) ==
    /\ Free(p)
    /\ \E account \in AccountKeys :
        \E r \in First(AccountLeftJoinUser(accounts, users, account.provider,
                                           account.providerAccountId)) :
            LET dbAccount == OrNull(r)
            IN  Returns(p, "getUserByAccount", account, Undefined,
                        IF dbAccount = Null THEN Null ELSE dbAccount.user)
    /\ UNCHANGED <<tables, handedOut>>
    /\ Ran(p, TRUE)

deleteSession_select(p) ==
    /\ Free(p)
    /\ \E sessionToken \in SessionTokens :
        \E r \in First(SelectSessions(sessions, sessionToken)) :
            Goes(p, "deleteSession", [sessionToken |-> sessionToken], "delete",
                 OrNull(r))
    /\ UNCHANGED <<tables, handedOut>>
    /\ Ran(p, TRUE)

deleteSession_delete(p) ==
    /\ At(p, "deleteSession", "delete")
    /\ sessions' = DeletedSessions(sessions, procs[p].arg.sessionToken)
    /\ Returns(p, "deleteSession", procs[p].arg, procs[p].loc, procs[p].loc)
    /\ UNCHANGED <<users, accounts, verificationTokens, handedOut>>
    /\ Ran(p, FALSE)

createVerificationToken_insert(p) ==
    /\ Free(p)
    /\ \E token \in TokenRows :
        LET err == InsertTokenError(verificationTokens, token)
        IN  /\ verificationTokens' = Inserted(verificationTokens, token, err)
            /\ IF err # OK
               THEN /\ Returns(p, "createVerificationToken", token, Undefined, err)
                    /\ UNCHANGED handedOut
               ELSE /\ Goes(p, "createVerificationToken", token, "select", Undefined)
                    /\ handedOut' = [handedOut EXCEPT ![TokenKey(token)] = 0]
    /\ UNCHANGED <<users, accounts, sessions>>
    /\ Ran(p, TRUE)

createVerificationToken_select(p) ==
    /\ At(p, "createVerificationToken", "select")
    /\ \E r \in First(SelectTokensByIdentifier(verificationTokens,
                                               procs[p].arg.identifier)) :
        Returns(p, "createVerificationToken", procs[p].arg, Undefined, r)
    /\ UNCHANGED <<tables, handedOut>>
    /\ Ran(p, FALSE)

useVerificationToken_select(p) ==
    /\ Free(p)
    /\ \E token \in TokenKeys :
        \E r \in First(SelectTokens(verificationTokens, token.identifier,
                                    token.token)) :
            Goes(p, "useVerificationToken", token, "delete", OrNull(r))
    /\ UNCHANGED <<tables, handedOut>>
    /\ Ran(p, TRUE)

useVerificationToken_delete(p) ==
    /\ At(p, "useVerificationToken", "delete")
    /\ verificationTokens' = DeletedTokens(verificationTokens,
                                           procs[p].arg.identifier, procs[p].arg.token)
    /\ Returns(p, "useVerificationToken", procs[p].arg, procs[p].loc, procs[p].loc)
    /\ handedOut' = HandedOut("useVerificationToken", procs[p].arg, procs[p].loc)
    /\ UNCHANGED <<users, accounts, sessions>>
    /\ Ran(p, FALSE)

deleteUser_select(p) ==
    /\ Free(p)
    /\ \E id \in UserIds : \E r \in First(SelectUsersById(users, id)) :
        Goes(p, "deleteUser", [id |-> id], "delete", OrNull(r))
    /\ UNCHANGED <<tables, handedOut>>
    /\ Ran(p, TRUE)

deleteUser_delete(p) ==
    /\ At(p, "deleteUser", "delete")
    /\ LET err == DeleteUserError(sessions, accounts, users, procs[p].arg.id)
       IN  /\ users' = DeletedUsers(users, procs[p].arg.id, err)
           /\ Returns(p, "deleteUser", procs[p].arg, procs[p].loc,
                      IF err # OK THEN err ELSE procs[p].loc)
    /\ UNCHANGED <<accounts, sessions, verificationTokens, handedOut>>
    /\ Ran(p, FALSE)

unlinkAccount_delete(p) ==
    /\ Free(p)
    /\ \E account \in AccountKeys :
        /\ accounts' = DeletedAccounts(accounts, account.provider,
                                       account.providerAccountId)
        /\ Returns(p, "unlinkAccount", account, Undefined, Undefined)
    /\ UNCHANGED <<users, sessions, verificationTokens, handedOut>>
    /\ Ran(p, TRUE)

ConcNext ==
    \E p \in Procs :
        \/ createUser_insert(p)
        \/ createUser_select(p)
        \/ getUser_select(p)
        \/ getUserByEmail_select(p)
        \/ createSession_insert(p)
        \/ createSession_select(p)
        \/ getSessionAndUser_select(p)
        \/ updateUser_update(p)
        \/ updateUser_select(p)
        \/ updateSession_update(p)
        \/ updateSession_select(p)
        \/ linkAccount_insert(p)
        \/ getUserByAccount_select(p)
        \/ deleteSession_select(p)
        \/ deleteSession_delete(p)
        \/ createVerificationToken_insert(p)
        \/ createVerificationToken_select(p)
        \/ useVerificationToken_select(p)
        \/ useVerificationToken_delete(p)
        \/ deleteUser_select(p)
        \/ deleteUser_delete(p)
        \/ unlinkAccount_delete(p)

ConcSpec == ConcInit /\ [][ConcNext]_vars

---------------------------------------------------------------------------
(* Claims checked under Spec: one call at a time *)

\* this step is a call of op, returning (or throwing) last'.res
Called(op) == nCalls' = nCalls + 1 /\ last'.op = op

NoTokenFound == Err("No verification token found.")

C3_CreateUserThenGetUser ==
    [][/\ Called("createUser") /\ ~IsErr(last'.res) =>
        /\ IsRow(last'.res)
        /\ ~UserExists(users, last'.res.id)
        /\ \A got \in getUserReturns(users', last'.res.id) :
            /\ IsRow(got)
            /\ got = last'.res
            /\ DOMAIN got = UserColumns
            /\ got.id = last'.res.id
            /\ \A f \in DOMAIN last'.arg : got[f] = last'.arg[f]
       /\ (/\ last.op = "createUser"
           /\ IsRow(last.res)
           /\ Called("getUser")
           /\ last'.arg.id = last.res.id)
          => /\ last'.res = last.res
             /\ \A f \in DOMAIN last.arg : last'.res[f] = last.arg[f]]_vars

\* C3's case: createUser has returned a row while another user was stored.
C3_Witness ==
    /\ last.op = "createUser"
    /\ IsRow(last.res)
    /\ "name" \in DOMAIN last.arg
    /\ \E u \in users : u.id # last.res.id

\* C4: updateUser with no id, or an empty one, throws and changes no table.
C4_UpdateUserWithoutId ==
    [][(/\ Called("updateUser")
        /\ ("id" \notin DOMAIN last'.arg \/ last'.arg.id = ""))
       => IsErr(last'.res) /\ UNCHANGED tables]_vars

\* C4's case: updateUser was called with an empty id while users were stored.
C4_Witness ==
    /\ last.op = "updateUser"
    /\ "id" \in DOMAIN last.arg
    /\ last.arg.id = ""
    /\ "name" \in DOMAIN last.arg
    /\ last.res = Err("No user id.")
    /\ users # {}

\* C5: deleteSession of a token no session has returns null and changes no
\* table; of a token a session has, it returns that session as it was and
\* removes it, and only it.
C5_DeleteSession ==
    [][Called("deleteSession") =>
        LET had == SelectSessions(sessions, last'.arg.sessionToken)
        IN  /\ had = {} => last'.res = Null /\ UNCHANGED tables
            /\ had # {} => /\ last'.res \in had
                           /\ SelectSessions(sessions', last'.arg.sessionToken) = {}
                           /\ sessions' = sessions \ had
                           /\ UNCHANGED <<users, accounts, verificationTokens>>]_vars

\* C5's case: deleteSession has returned the session it deleted, another
\* session being left.
C5_Witness ==
    /\ last.op = "deleteSession"
    /\ IsRow(last.res)
    /\ sessions # {}

\* C6: getUserByAccount returns null when no account has the key, null when
\* the account's userId is no user's id, and otherwise the user whose id is
\* the account's userId; it never throws.
C6_GetUserByAccount ==
    [][Called("getUserByAccount") =>
        LET found == {a \in accounts :
                        /\ a.provider = last'.arg.provider
                        /\ a.providerAccountId = last'.arg.providerAccountId}
        IN  /\ ~IsErr(last'.res)
            /\ found = {} => last'.res = Null
            /\ \A a \in found :
                IF UserExists(users, a.userId)
                THEN last'.res \in users /\ last'.res.id = a.userId
                ELSE last'.res = Null]_vars

\* C6's case: getUserByAccount has returned the user of an account while
\* another user was stored.
C6_Witness ==
    /\ last.op = "getUserByAccount"
    /\ IsRow(last.res)
    /\ \E u \in users : u.id # last.res.id

\* C7: a createVerificationToken that completes returns the token it was
\* given, whatever other tokens the identifier has.
C7_ReturnsInsertedToken ==
    [][Called("createVerificationToken") /\ ~IsErr(last'.res)
       => last'.res = last'.arg]_vars

\* C10: getSessionAndUser changes no table and never throws; it returns null
\* when no session has the token, and otherwise the session with the token
\* together with the user whose id is the session's userId.
C10_GetSessionAndUser ==
    [][Called("getSessionAndUser") =>
        LET found == SelectSessions(sessions, last'.arg.sessionToken)
        IN  /\ UNCHANGED tables
            /\ ~IsErr(last'.res)
            /\ found = {} <=> last'.res = Null
            /\ \A s \in found :
                /\ IsRow(last'.res)
                /\ last'.res.session = s
                /\ last'.res.user \in users
                /\ last'.res.user.id = s.userId]_vars

\* C10's case: getSessionAndUser has returned a session and its user, another
\* user being stored.
C10_Witness ==
    /\ last.op = "getSessionAndUser"
    /\ IsRow(last.res)
    /\ \E u \in users : u.id # last.res.user.id

---------------------------------------------------------------------------
(* Claims checked under ConcSpec: concurrent calls *)

\* C2: whatever the interleaving of the selects and deletes of concurrent
\* calls of useVerificationToken, at most one call returns a stored token.
C2_ConsumedOnce == \A k \in TokenKeys : handedOut[k] <= 1

\* every session's and every account's userId is the id of a user
RefIntegrity(S, A, U) ==
    /\ \A s \in S : UserExists(U, s.userId)
    /\ \A a \in A : UserExists(U, a.userId)

\* this step starts caller p's call of op (a statement changes the record of
\* its own caller alone)
Starts(p, op) ==
    /\ procs[p].pc \in {"idle", "done"}
    /\ procs'[p] # procs[p]
    /\ procs'[p].op = op

\* this step ends caller p's call of op, which awaited its statement pc
Ends(p, op, pc) == At(p, op, pc) /\ procs'[p].pc = "done"

\* C8: before and after every statement of every interleaving, each
\* session's and each account's userId is the id of a user; createSession and
\* linkAccount with the userId of no user, and deleteUser of a user that has
\* sessions or accounts, throw and change no table.
C8_ReferentialIntegrity ==
    [][/\ RefIntegrity(sessions, accounts, users)
       /\ RefIntegrity(sessions', accounts', users')
       /\ \A p \in Procs :
            /\ (/\ Starts(p, "createSession") \/ Starts(p, "linkAccount")
                /\ ~UserExists(users, procs'[p].arg.userId))
               => IsErr(procs'[p].res) /\ UNCHANGED tables
            /\ (/\ Ends(p, "deleteUser", "delete")
                /\ \E r \in sessions \cup accounts : r.userId = procs[p].arg.id)
               => IsErr(procs'[p].res) /\ UNCHANGED tables]_vars

\* C8's case: deleteUser of a user with a session has thrown, and so has
\* createSession for the id of no user.
C8_Witness ==
    /\ procs[1].op = "deleteUser"
    /\ procs[1].res = ER_ROW_IS_REFERENCED
    /\ procs[2].op = "createSession"
    /\ procs[2].res = ER_NO_REFERENCED_ROW
    /\ sessions # {}

\* C9: the re-read of updateSession and of updateUser returns the row as it
\* is when the re-read runs: with no statement of another call in between it
\* is the row the update wrote, carrying the values given (undefined only if
\* the update matched no row); with one, it is the other call's row, or
\* undefined once the row is deleted.
C9_RereadAfterUpdate ==
    [][\A p \in Procs :
        /\ Ends(p, "updateSession", "select") =>
            /\ procs'[p].res \in First(SelectSessions(sessions,
                                                      procs[p].arg.sessionToken))
            /\ ~interfered[p] =>
                /\ procs'[p].res = procs[p].loc
                /\ IsRow(procs'[p].res) =>
                    \A f \in DOMAIN procs[p].arg : procs'[p].res[f] = procs[p].arg[f]
        /\ Ends(p, "updateUser", "select") =>
            /\ procs'[p].res \in First(SelectUsersById(users, procs[p].arg.id))
            /\ ~interfered[p] =>
                /\ procs'[p].res = procs[p].loc
                /\ IsRow(procs'[p].res) =>
                    \A f \in DOMAIN procs[p].arg : procs'[p].res[f] = procs[p].arg[f]]_vars

\* C9's case: updateSession has returned a row that does not carry a value
\* the call wrote: another call wrote the row before the re-read.
C9_Witness ==
    \E p \in Procs :
        /\ procs[p].op = "updateSession"
        /\ procs[p].pc = "done"
        /\ IsRow(procs[p].loc)
        /\ IsRow(procs[p].res)
        /\ \E f \in DOMAIN procs[p].arg : procs[p].res[f] # procs[p].arg[f]

\* C9's other cases: updateSession has returned undefined for a row its
\* update wrote, and updateUser has returned another call's values.
C9_WitnessVanished ==
    \E p \in Procs :
        /\ procs[p].op = "updateSession"
        /\ procs[p].pc = "done"
        /\ IsRow(procs[p].loc)
        /\ procs[p].res = Undefined

C9_WitnessUser ==
    \E p \in Procs :
        /\ procs[p].op = "updateUser"
        /\ procs[p].pc = "done"
        /\ IsRow(procs[p].res)
        /\ \E f \in DOMAIN procs[p].arg : procs[p].res[f] # procs[p].arg[f]

=============================================================================
